---- MODULE Spec2Model ----
(***************************************************************************)
(* go-rtml: the real-time memory limiter.                                  *)
(*                                                                         *)
(* The package reads the Go runtime's garbage-collector controller         *)
(* (runtime.gcController, mirrored by gcControllerState) through           *)
(* go:linkname and answers IsMemLimitReached() and                         *)
(* GetMemLimitRelatedStats().  The runtime (the "memory manager") updates  *)
(* the controller's counters one atomic field at a time; the package's     *)
(* callers load them one atomic field at a time.  Every load is one step   *)
(* of the model, so that the runtime's updates interleave with the reads   *)
(* of a call exactly where the code allows it.                             *)
(*                                                                         *)
(* 64-bit words are scaled down to WordBits bits: uint64 arithmetic is     *)
(* arithmetic modulo 2^WordBits and int64 -> uint64 conversion is the      *)
(* two's complement one.                                                   *)
(***************************************************************************)
EXTENDS Integers, FiniteSets, Sequences, TLC

\* ---------------------------------------------------------------- bounds

\* Width of the machine word the model uses in place of 64 bits.
WordBits == 3

\* Largest byte count a counter of the controller takes in the model.
MaxBytes == 1

\* Number of goroutines that call into the package concurrently.
NumCallers == 2

\* The largest exit code of a container.
MaxExit == 1

\* The largest memory usage a stats reading reports, in units.
MaxUsage == 2

\* --------------------------------------------------------------- words

RECURSIVE Pow2(_)
Pow2(n) == IF n = 0 THEN 1 ELSE 2 * Pow2(n - 1)

\* uint64 holds 0 .. Mod-1; int64 holds -(MaxInt64+1) .. MaxInt64.
Mod == Pow2(WordBits)

MaxInt64 == Pow2(WordBits - 1) - 1

Uint64 == 0 .. (Mod - 1)

\* The Go conversion uint64(x) of an int64 x: two's complement, never a panic.
ToUint64(x) == x % Mod

\* Go's unsigned subtraction a - b: wraps around, never a panic.
Sub64(a, b) == (a - b) % Mod

\* Byte counts of the scenario runs, whose working set is one byte more
\* than a configured budget can be.
MaxRetained == MaxBytes + 1

Retained == 0 .. MaxRetained

\* Byte counts the runtime's counters take.
Bytes == 0 .. MaxBytes

\* Values of gcController.memoryLimit (an atomic.Int64): a configured
\* budget, math.MaxInt64 when no GOMEMLIMIT is set, or a negative value
\* (the field is signed and the package does not check its sign).
Limits == {-1} \cup Bytes \cup {MaxInt64}

Callers == 1 .. NumCallers

\* The one goroutine of the single-caller specifications.
Solo == {1}

\* ---------------------------------------------------------------- state

VARIABLES
    gc,        \* runtimeGCController: the fields of gcControllerState the package reads
    pc,        \* pc[c]: the source line caller c is about to execute, or "idle"
    loc,       \* loc[c]: the local variables of c's IsMemLimitReached call
    stats,     \* stats[c]: the MemLimitRelatedStats value c's call is building
    ret,       \* ret[c]: the boolean c's IsMemLimitReached call returned
    changed,   \* history: the runtime updated the controller during c's current call
    last,      \* history: what c's previous calls returned
    watch,     \* history: the fields of the controller whose values are recorded
    held,      \* history: held[c]: the values the watched fields took during c's call
    test,      \* the sanity test process (test-runner): its snapshots, position and exit code
    run        \* one RunTest call of the harness: its goroutines, channels and result

vars == <<gc, pc, loc, stats, ret, changed, last, watch, held, test, run>>

\* The test framework is not running.
Off == [pc |-> "off"]

\* The mirrored struct, restricted to the fields the package reads.
gcControllerState ==
    [ memoryLimit       : Limits,
      gcPercentHeapGoal : Bytes,
      heapLive          : Bytes,
      heapFree          : Bytes,
      totalAlloc        : Bytes,
      totalFree         : Bytes,
      mappedReady       : Bytes ]

\* A load that is not atomic and misses the low half of the word.
loadTorn(s) == s - (s % 2)

\* sysMemStat.load: atomic.LoadUint64 of the counter, the whole word in one step.
load(s) == s

\* atomic.Int64.Load / atomic.Uint64.Load of a controller field.
Load(x) == x

\* runtime.(*gcControllerState).heapGoal, linked by name: the runtime's own
\* goal, the smaller of the GOGC-percent goal and the goal the memory limit
\* allows.  Its body is the runtime's; the model keeps the two inputs the
\* controller record holds.
runtimeHeapGoal(g) ==
    IF g.gcPercentHeapGoal < ToUint64(g.memoryLimit)
    THEN g.gcPercentHeapGoal
    ELSE ToUint64(g.memoryLimit)

\* Locals of IsMemLimitReached before any of them is assigned.
NoLocals == [ memoryLimit |-> 0, mappedReady |-> 0, heapFree |-> 0,
              heapGoal |-> 0, heapLive |-> 0 ]

\* MemLimitRelatedStats: the struct's zero value.
MemLimitRelatedStats ==
    [ MemoryLimit |-> 0, HeapGoal |-> 0, HeapLive |-> 0, MappedReady |-> 0,
      HeapFree |-> 0, TotalAlloc |-> 0, TotalFree |-> 0 ]

\* --------------------------------------------------- the memory manager

\* debug.SetMemoryLimit / GOMEMLIMIT: the runtime stores a new soft limit.
SetMemoryLimit ==
    /\ \E l \in Limits :
          /\ l # gc.memoryLimit
          /\ gc' = [gc EXCEPT !.memoryLimit = l]
    /\ UNCHANGED <<pc, loc, stats, ret>>

\* The pacer recomputes the GOGC-percent heap goal at the end of a cycle.
UpdateHeapGoal ==
    /\ \E d \in {-1, 1} :
          /\ gc.gcPercentHeapGoal + d \in Bytes
          /\ gc' = [gc EXCEPT !.gcPercentHeapGoal = @ + d]
    /\ UNCHANGED <<pc, loc, stats, ret>>

\* Allocation grows the live heap; sweeping shrinks it.
UpdateHeapLive ==
    /\ \E d \in {-1, 1} :
          /\ gc.heapLive + d \in Bytes
          /\ gc' = [gc EXCEPT !.heapLive = @ + d]
    /\ UNCHANGED <<pc, loc, stats, ret>>

\* Sweeping adds free spans; allocation and the scavenger take them away.
UpdateHeapFree ==
    /\ \E d \in {-1, 1} :
          /\ gc.heapFree + d \in Bytes
          /\ gc' = [gc EXCEPT !.heapFree = @ + d]
    /\ UNCHANGED <<pc, loc, stats, ret>>

\* Mapping memory from the OS adds ready bytes; the scavenger returns them.
UpdateMappedReady ==
    /\ \E d \in {-1, 1} :
          /\ gc.mappedReady + d \in Bytes
          /\ gc' = [gc EXCEPT !.mappedReady = @ + d]
    /\ UNCHANGED <<pc, loc, stats, ret>>

\* totalAlloc is a monotonic counter: it only grows.
AddTotalAlloc ==
    /\ gc.totalAlloc < MaxBytes
    /\ gc' = [gc EXCEPT !.totalAlloc = @ + 1]
    /\ UNCHANGED <<pc, loc, stats, ret>>

\* totalFree is a monotonic counter: it only grows.
AddTotalFree ==
    /\ gc.totalFree < MaxBytes
    /\ gc' = [gc EXCEPT !.totalFree = @ + 1]
    /\ UNCHANGED <<pc, loc, stats, ret>>

\* The runtime adds a byte to counter f or takes one away, within B.
Adjust(f, B) ==
    /\ \E d \in {-1, 1} :
          /\ gc[f] + d \in B
          /\ gc' = [gc EXCEPT ![f] = @ + d]
    /\ UNCHANGED <<pc, loc, stats, ret>>

\* The workload of a scenario run: the program allocates, retains and
\* releases memory and the runtime adjusts one counter at a time, within
\* the scenario's working set; the program never overrides the soft limit.
Workload ==
    \E f \in {"gcPercentHeapGoal", "heapLive", "heapFree", "mappedReady"} :
        Adjust(f, Retained)

\* The runtime's bookkeeping of ready memory: the live heap and the free
\* spans are both part of the bytes mapped ready.
Accounted(g) == g.heapLive + g.heapFree <= g.mappedReady

\* The workload of scenario B under that bookkeeping: the ready bytes can
\* hold a whole working set and as many free bytes.
Retaining ==
    /\ \/ \E f \in {"gcPercentHeapGoal", "heapLive", "heapFree"} :
             Adjust(f, Retained)
       \/ Adjust("mappedReady", 0 .. 2 * MaxRetained)
    /\ Accounted(gc')

\* The workload of a process that maps memory without bound: the ready
\* bytes take every value up to 2^63, the other counters stay within the
\* working set.
Mapping ==
    \/ \E f \in {"gcPercentHeapGoal", "heapLive", "heapFree"} :
          Adjust(f, Retained)
    \/ Adjust("mappedReady", 0 .. MaxInt64 + 1)

\* Healthy operation: the collector keeps the live heap below the GOGC
\* goal.
Healthy(g) == g.heapLive < g.gcPercentHeapGoal

\* The workload of the sanity test: its one goroutine allocates, retains
\* and forces collections between its calls of the package, never during
\* one, and the runtime stays in healthy operation.
Sanity ==
    /\ \A c \in Callers : pc[c] = "idle"
    /\ \/ \E f \in {"heapLive", "heapFree"} : Adjust(f, Retained)
       \/ \E f \in {"gcPercentHeapGoal", "mappedReady"} :
             Adjust(f, 0 .. 2 * MaxRetained)
    /\ Healthy(gc')

\* One step of the runtime on a field the pressure decision reads, under
\* its bookkeeping of ready memory.
Bookkeeping ==
    /\ \/ SetMemoryLimit
       \/ UpdateHeapGoal
       \/ UpdateHeapLive
       \/ UpdateHeapFree
       \/ UpdateMappedReady
    /\ Accounted(gc')

\* One step of the runtime on a field the pressure decision reads.
Pacing ==
    \/ SetMemoryLimit
    \/ UpdateHeapGoal
    \/ UpdateHeapLive
    \/ UpdateHeapFree
    \/ UpdateMappedReady

\* One step of the runtime on a lifetime counter, which only the stats read.
Accounting ==
    \/ AddTotalAlloc
    \/ AddTotalFree

\* One step of the runtime: one atomic update of one field.
Manager == Pacing \/ Accounting

\* ------------------------------------------------- IsMemLimitReached

\* The fast check with its operands exchanged.
FastCheckSwapped(memoryLimit, mappedReady) == mappedReady > ToUint64(memoryLimit)

\* The fast check on the signed limit, without the conversion.
FastCheckSigned(memoryLimit, mappedReady) == memoryLimit > mappedReady

\* Line 112: the fast check, uint64(memoryLimit) > mappedReady.
FastCheck(memoryLimit, mappedReady) == ToUint64(memoryLimit) > mappedReady

\* The heap-free credit with the free bytes added instead of deducted.
FreeCheckAdded(memoryLimit, mappedReady, heapFree) ==
    ToUint64(memoryLimit) > (mappedReady + heapFree) % Mod

\* The heap-free credit with a subtraction that stops at zero.
FreeCheckSaturating(memoryLimit, mappedReady, heapFree) ==
    ToUint64(memoryLimit) >
        (IF heapFree > mappedReady THEN 0 ELSE mappedReady - heapFree)

\* Line 119: the heap-free credit, uint64(memoryLimit) > (mappedReady - heapFree).
FreeCheck(memoryLimit, mappedReady, heapFree) ==
    ToUint64(memoryLimit) > Sub64(mappedReady, heapFree)

\* The goal check with <= for <.
GoalCheckInclusive(heapLive, heapGoal) == heapLive <= heapGoal

\* Line 129: the goal check, heapLive < heapGoal.
GoalCheck(heapLive, heapGoal) == heapLive < heapGoal

\* Lines 110-135 on the controller g read at one instant: what
\* IsMemLimitReached returns when no counter moves between its loads.
Decision(g) ==
    /\ ~FastCheck(g.memoryLimit, g.mappedReady)
    /\ ~FreeCheck(g.memoryLimit, g.mappedReady, g.heapFree)
    /\ ~GoalCheck(g.heapLive, runtimeHeapGoal(g))

\* The state scenario B drives the process into: a live heap retained
\* above the soft limit, more bytes mapped ready than the limit, and the
\* live heap at or over its goal.
Thrashing(g) ==
    /\ g.heapLive > ToUint64(g.memoryLimit)
    /\ g.mappedReady > ToUint64(g.memoryLimit)
    /\ g.heapLive >= runtimeHeapGoal(g)

\* Where a call of IsMemLimitReached stands: before a line, or at a return.
IsMemRunning == {"L110", "L111", "L118", "L126", "L127"}

IsMemReturned == {"L113", "L120", "L131", "L135"}

\* A goroutine enters IsMemLimitReached.
IsMemLimitReached(c) ==
    /\ pc[c] = "idle"
    /\ pc' = [pc EXCEPT ![c] = "L110"]
    /\ UNCHANGED <<gc, loc, stats, ret>>

\* Line 110 behind a mutex: the load waits while another caller is inside
\* the function.
IsMem_L110_Locked(c) ==
    /\ pc[c] = "L110"
    /\ \A d \in Callers \ {c} : pc[d] \notin {"L111", "L118", "L126", "L127"}
    /\ loc' = [loc EXCEPT ![c].memoryLimit = Load(gc.memoryLimit)]
    /\ pc' = [pc EXCEPT ![c] = "L111"]
    /\ UNCHANGED <<gc, stats, ret>>

\* Line 110 with a guard: a zero limit counts as no limit, and the call
\* returns false at once.
IsMem_L110_ZeroGuard(c) ==
    /\ pc[c] = "L110"
    /\ loc' = [loc EXCEPT ![c].memoryLimit = Load(gc.memoryLimit)]
    /\ IF Load(gc.memoryLimit) = 0
       THEN /\ pc' = [pc EXCEPT ![c] = "L113"]
            /\ ret' = [ret EXCEPT ![c] = FALSE]
       ELSE /\ pc' = [pc EXCEPT ![c] = "L111"]
            /\ UNCHANGED ret
    /\ UNCHANGED <<gc, stats>>

\* memoryLimit := runtimeGCController.memoryLimit.Load()
IsMem_L110(c) ==
    /\ pc[c] = "L110"
    /\ loc' = [loc EXCEPT ![c].memoryLimit = Load(gc.memoryLimit)]
    /\ pc' = [pc EXCEPT ![c] = "L111"]
    /\ UNCHANGED <<gc, stats, ret>>

\* Line 111 with hysteresis: a caller whose previous call reported
\* pressure is not let through the fast path.
IsMem_L111_Sticky(c) ==
    /\ pc[c] = "L111"
    /\ LET mappedReady == Load(gc.mappedReady) IN
          /\ loc' = [loc EXCEPT ![c].mappedReady = mappedReady]
          /\ IF FastCheck(loc[c].memoryLimit, mappedReady)
             THEN /\ pc' = [pc EXCEPT ![c] = "L113"]
                  /\ ret' = [ret EXCEPT ![c] = (last[c].reached = "true")]
             ELSE /\ pc' = [pc EXCEPT ![c] = "L118"]
                  /\ UNCHANGED ret
    /\ UNCHANGED <<gc, stats>>

\* Line 111 without the fast return: every call goes on to the credit.
IsMem_L111_Slow(c) ==
    /\ pc[c] = "L111"
    /\ loc' = [loc EXCEPT ![c].mappedReady = Load(gc.mappedReady)]
    /\ pc' = [pc EXCEPT ![c] = "L118"]
    /\ UNCHANGED <<gc, stats, ret>>

\* Line 111 with every counter loaded up front, before the fast check.
IsMem_L111_Eager(c) ==
    /\ pc[c] = "L111"
    /\ LET mappedReady == Load(gc.mappedReady) IN
          /\ loc' = [loc EXCEPT ![c].mappedReady = mappedReady,
                                ![c].heapFree = load(gc.heapFree),
                                ![c].heapLive = Load(gc.heapLive)]
          /\ IF FastCheck(loc[c].memoryLimit, mappedReady)
             THEN /\ pc' = [pc EXCEPT ![c] = "L113"]
                  /\ ret' = [ret EXCEPT ![c] = FALSE]
             ELSE /\ pc' = [pc EXCEPT ![c] = "L118"]
                  /\ UNCHANGED ret
    /\ UNCHANGED <<gc, stats>>

\* mappedReady := runtimeGCController.mappedReady.Load()
\* if uint64(memoryLimit) > mappedReady { return false }
IsMem_L111(c) ==
    /\ pc[c] = "L111"
    /\ LET mappedReady == Load(gc.mappedReady) IN
          /\ loc' = [loc EXCEPT ![c].mappedReady = mappedReady]
          /\ IF FastCheck(loc[c].memoryLimit, mappedReady)
             THEN /\ pc' = [pc EXCEPT ![c] = "L113"]
                  /\ ret' = [ret EXCEPT ![c] = FALSE]
             ELSE /\ pc' = [pc EXCEPT ![c] = "L118"]
                  /\ UNCHANGED ret
    /\ UNCHANGED <<gc, stats>>

\* Line 118 with an atomic swap for the load: the credit read is taken
\* out of the runtime's counter.
IsMem_L118_Swap(c) ==
    /\ pc[c] = "L118"
    /\ LET heapFree == load(gc.heapFree) IN
          /\ loc' = [loc EXCEPT ![c].heapFree = heapFree]
          /\ gc' = [gc EXCEPT !.heapFree = 0]
          /\ IF FreeCheck(loc[c].memoryLimit, loc[c].mappedReady, heapFree)
             THEN /\ pc' = [pc EXCEPT ![c] = "L120"]
                  /\ ret' = [ret EXCEPT ![c] = FALSE]
             ELSE /\ pc' = [pc EXCEPT ![c] = "L126"]
                  /\ UNCHANGED ret
    /\ UNCHANGED stats

\* Line 118 with a checked subtraction: the call stops, returning nothing,
\* when the free bytes read exceed the ready bytes read.
IsMem_L118_Checked(c) ==
    /\ pc[c] = "L118"
    /\ load(gc.heapFree) <= loc[c].mappedReady
    /\ LET heapFree == load(gc.heapFree) IN
          /\ loc' = [loc EXCEPT ![c].heapFree = heapFree]
          /\ IF FreeCheck(loc[c].memoryLimit, loc[c].mappedReady, heapFree)
             THEN /\ pc' = [pc EXCEPT ![c] = "L120"]
                  /\ ret' = [ret EXCEPT ![c] = FALSE]
             ELSE /\ pc' = [pc EXCEPT ![c] = "L126"]
                  /\ UNCHANGED ret
    /\ UNCHANGED <<gc, stats>>

\* Line 118 with the limit and the ready bytes loaded afresh for the
\* credit.
IsMem_L118_Reload(c) ==
    /\ pc[c] = "L118"
    /\ LET heapFree == load(gc.heapFree) IN
          /\ loc' = [loc EXCEPT ![c].heapFree = heapFree,
                                ![c].memoryLimit = Load(gc.memoryLimit),
                                ![c].mappedReady = Load(gc.mappedReady)]
          /\ IF FreeCheck(Load(gc.memoryLimit), Load(gc.mappedReady), heapFree)
             THEN /\ pc' = [pc EXCEPT ![c] = "L120"]
                  /\ ret' = [ret EXCEPT ![c] = FALSE]
             ELSE /\ pc' = [pc EXCEPT ![c] = "L126"]
                  /\ UNCHANGED ret
    /\ UNCHANGED <<gc, stats>>

\* heapFree := runtimeGCController.heapFree.load()
\* if uint64(memoryLimit) > (mappedReady - heapFree) { return false }
IsMem_L118(c) ==
    /\ pc[c] = "L118"
    /\ LET heapFree == load(gc.heapFree) IN
          /\ loc' = [loc EXCEPT ![c].heapFree = heapFree]
          /\ IF FreeCheck(loc[c].memoryLimit, loc[c].mappedReady, heapFree)
             THEN /\ pc' = [pc EXCEPT ![c] = "L120"]
                  /\ ret' = [ret EXCEPT ![c] = FALSE]
             ELSE /\ pc' = [pc EXCEPT ![c] = "L126"]
                  /\ UNCHANGED ret
    /\ UNCHANGED <<gc, stats>>

\* Line 126 with a goal of the package's own that leaves out the limit.
IsMem_L126_PercentOnly(c) ==
    /\ pc[c] = "L126"
    /\ loc' = [loc EXCEPT ![c].heapGoal = gc.gcPercentHeapGoal]
    /\ pc' = [pc EXCEPT ![c] = "L127"]
    /\ UNCHANGED <<gc, stats, ret>>

\* heapGoal := runtimeHeapGoal(&runtimeGCController)
IsMem_L126(c) ==
    /\ pc[c] = "L126"
    /\ loc' = [loc EXCEPT ![c].heapGoal = runtimeHeapGoal(gc)]
    /\ pc' = [pc EXCEPT ![c] = "L127"]
    /\ UNCHANGED <<gc, stats, ret>>

\* Line 127 with the comparison made on the local before the load has
\* filled it.
IsMem_L127_Early(c) ==
    /\ pc[c] = "L127"
    /\ LET heapLive == Load(gc.heapLive) IN
          /\ loc' = [loc EXCEPT ![c].heapLive = heapLive]
          /\ IF GoalCheck(loc[c].heapLive, loc[c].heapGoal)
             THEN /\ pc' = [pc EXCEPT ![c] = "L131"]
                  /\ ret' = [ret EXCEPT ![c] = FALSE]
             ELSE /\ pc' = [pc EXCEPT ![c] = "L135"]
                  /\ ret' = [ret EXCEPT ![c] = TRUE]
    /\ UNCHANGED <<gc, stats>>

\* heapLive := runtimeGCController.heapLive.Load()
\* if heapLive < heapGoal { return false }; return true
IsMem_L127(c) ==
    /\ pc[c] = "L127"
    /\ LET heapLive == Load(gc.heapLive) IN
          /\ loc' = [loc EXCEPT ![c].heapLive = heapLive]
          /\ IF GoalCheck(heapLive, loc[c].heapGoal)
             THEN /\ pc' = [pc EXCEPT ![c] = "L131"]
                  /\ ret' = [ret EXCEPT ![c] = FALSE]
             ELSE /\ pc' = [pc EXCEPT ![c] = "L135"]
                  /\ ret' = [ret EXCEPT ![c] = TRUE]
    /\ UNCHANGED <<gc, stats>>

\* The caller takes the boolean; the call's frame is gone.
IsMemReturn(c) ==
    /\ pc[c] \in IsMemReturned
    /\ pc' = [pc EXCEPT ![c] = "idle"]
    /\ loc' = [loc EXCEPT ![c] = NoLocals]
    /\ ret' = [ret EXCEPT ![c] = FALSE]
    /\ UNCHANGED <<gc, stats>>

\* One step of caller c inside IsMemLimitReached.
IsMemStep(c) ==
    \/ IsMem_L110(c)
    \/ IsMem_L111(c)
    \/ IsMem_L118(c)
    \/ IsMem_L126(c)
    \/ IsMem_L127(c)

\* --------------------------------------------- GetMemLimitRelatedStats

StatsRunning == {"L182", "L184", "L186", "L187", "L188", "L189", "L190"}

StatsReturned == {"L191"}

\* A goroutine enters GetMemLimitRelatedStats.
GetMemLimitRelatedStats(c) ==
    /\ pc[c] = "idle"
    /\ pc' = [pc EXCEPT ![c] = "L182"]
    /\ UNCHANGED <<gc, loc, stats, ret>>

\* Line 182 with a goal of the package's own that leaves out the limit.
Stats_L182_PercentOnly(c) ==
    /\ pc[c] = "L182"
    /\ stats' = [stats EXCEPT ![c].HeapGoal = gc.gcPercentHeapGoal]
    /\ pc' = [pc EXCEPT ![c] = "L184"]
    /\ UNCHANGED <<gc, loc, ret>>

\* heapGoal := runtimeHeapGoal(&runtimeGCController);  HeapGoal: heapGoal
Stats_L182(c) ==
    /\ pc[c] = "L182"
    /\ stats' = [stats EXCEPT ![c].HeapGoal = runtimeHeapGoal(gc)]
    /\ pc' = [pc EXCEPT ![c] = "L184"]
    /\ UNCHANGED <<gc, loc, ret>>

\* Line 184 reporting a negative limit as zero.
Stats_L184_Clamped(c) ==
    /\ pc[c] = "L184"
    /\ stats' = [stats EXCEPT ![c].MemoryLimit =
                     IF Load(gc.memoryLimit) < 0 THEN 0
                     ELSE Load(gc.memoryLimit)]
    /\ pc' = [pc EXCEPT ![c] = "L186"]
    /\ UNCHANGED <<gc, loc, ret>>

\* MemoryLimit: uint64(runtimeGCController.memoryLimit.Load())
Stats_L184(c) ==
    /\ pc[c] = "L184"
    /\ stats' = [stats EXCEPT ![c].MemoryLimit = ToUint64(Load(gc.memoryLimit))]
    /\ pc' = [pc EXCEPT ![c] = "L186"]
    /\ UNCHANGED <<gc, loc, ret>>

\* Line 186 served from the previous snapshot when there is one.
Stats_L186_Cached(c) ==
    /\ pc[c] = "L186"
    /\ stats' = [stats EXCEPT ![c].HeapLive =
                     IF last[c].HeapLive # -1 THEN last[c].HeapLive
                     ELSE Load(gc.heapLive)]
    /\ pc' = [pc EXCEPT ![c] = "L187"]
    /\ UNCHANGED <<gc, loc, ret>>

\* Line 186 loading the ready bytes where the live heap belongs.
Stats_L186_Ready(c) ==
    /\ pc[c] = "L186"
    /\ stats' = [stats EXCEPT ![c].HeapLive = Load(gc.mappedReady)]
    /\ pc' = [pc EXCEPT ![c] = "L187"]
    /\ UNCHANGED <<gc, loc, ret>>

\* HeapLive: runtimeGCController.heapLive.Load()
Stats_L186(c) ==
    /\ pc[c] = "L186"
    /\ stats' = [stats EXCEPT ![c].HeapLive = Load(gc.heapLive)]
    /\ pc' = [pc EXCEPT ![c] = "L187"]
    /\ UNCHANGED <<gc, loc, ret>>

\* Line 187 reading the wrong counter.
Stats_L187_Swapped(c) ==
    /\ pc[c] = "L187"
    /\ stats' = [stats EXCEPT ![c].MappedReady = Load(gc.heapLive)]
    /\ pc' = [pc EXCEPT ![c] = "L188"]
    /\ UNCHANGED <<gc, loc, ret>>

\* Line 187 loading the free bytes where the ready bytes belong.
Stats_L187_Free(c) ==
    /\ pc[c] = "L187"
    /\ stats' = [stats EXCEPT ![c].MappedReady = load(gc.heapFree)]
    /\ pc' = [pc EXCEPT ![c] = "L188"]
    /\ UNCHANGED <<gc, loc, ret>>

\* MappedReady: runtimeGCController.mappedReady.Load()
Stats_L187(c) ==
    /\ pc[c] = "L187"
    /\ stats' = [stats EXCEPT ![c].MappedReady = Load(gc.mappedReady)]
    /\ pc' = [pc EXCEPT ![c] = "L188"]
    /\ UNCHANGED <<gc, loc, ret>>

\* Line 188 reporting the change since the caller's previous snapshot
\* instead of the counter.
Stats_L188_Delta(c) ==
    /\ pc[c] = "L188"
    /\ stats' = [stats EXCEPT ![c].HeapFree =
                     IF last[c].prev # -1
                     THEN Sub64(load(gc.heapFree), last[c].prev)
                     ELSE load(gc.heapFree)]
    /\ pc' = [pc EXCEPT ![c] = "L189"]
    /\ UNCHANGED <<gc, loc, ret>>

\* Line 188 reporting the free bytes net of the live heap.
Stats_L188_Net(c) ==
    /\ pc[c] = "L188"
    /\ stats' = [stats EXCEPT ![c].HeapFree =
                     Sub64(load(gc.heapFree), Load(gc.heapLive))]
    /\ pc' = [pc EXCEPT ![c] = "L189"]
    /\ UNCHANGED <<gc, loc, ret>>

\* HeapFree: runtimeGCController.heapFree.load()
Stats_L188(c) ==
    /\ pc[c] = "L188"
    /\ stats' = [stats EXCEPT ![c].HeapFree = load(gc.heapFree)]
    /\ pc' = [pc EXCEPT ![c] = "L189"]
    /\ UNCHANGED <<gc, loc, ret>>

\* Line 189 served from the caller's previous snapshot when there is one.
Stats_L189_Cached(c) ==
    /\ pc[c] = "L189"
    /\ stats' = [stats EXCEPT ![c].TotalAlloc =
                     IF last[c].prev # -1 THEN last[c].prev
                     ELSE Load(gc.totalAlloc)]
    /\ pc' = [pc EXCEPT ![c] = "L190"]
    /\ UNCHANGED <<gc, loc, ret>>

\* TotalAlloc: runtimeGCController.totalAlloc.Load()
Stats_L189(c) ==
    /\ pc[c] = "L189"
    /\ stats' = [stats EXCEPT ![c].TotalAlloc = Load(gc.totalAlloc)]
    /\ pc' = [pc EXCEPT ![c] = "L190"]
    /\ UNCHANGED <<gc, loc, ret>>

\* TotalFree: runtimeGCController.totalFree.Load(); the struct is returned.
Stats_L190(c) ==
    /\ pc[c] = "L190"
    /\ stats' = [stats EXCEPT ![c].TotalFree = Load(gc.totalFree)]
    /\ pc' = [pc EXCEPT ![c] = "L191"]
    /\ UNCHANGED <<gc, loc, ret>>

\* The caller takes the struct; the call's frame is gone.
StatsReturn(c) ==
    /\ pc[c] \in StatsReturned
    /\ pc' = [pc EXCEPT ![c] = "idle"]
    /\ stats' = [stats EXCEPT ![c] = MemLimitRelatedStats]
    /\ UNCHANGED <<gc, loc, ret>>

\* One step of caller c inside GetMemLimitRelatedStats.
StatsStep(c) ==
    \/ Stats_L182(c)
    \/ Stats_L184(c)
    \/ Stats_L186(c)
    \/ Stats_L187(c)
    \/ Stats_L188(c)
    \/ Stats_L189(c)
    \/ Stats_L190(c)

\* ------------------------------------------ the sanity test (test-runner)

\* Byte counts of the sanity test are in megabytes: every threshold of the
\* test is a whole number of megabytes for the default allocation size.

\* ALLOC_SIZE_MB, by default.
AllocSizeMB == 50

\* finalStats.HeapLive + 2*1024*1024
MinOverheadMB == 2

\* finalStats.HeapLive + 10*1024*1024
MaxOverheadMB == 10

\* finalStats.HeapLive + 60*1024*1024
MaxGrowthMB == 60

\* uint64(5) * 1024 * 1024
MaxTotalFreeMB == 5

\* uint64(test.allocSizeMB) * 1024 * 1024 * 9 / 10
ExpectedMin(allocSizeMB) == (allocSizeMB * 9) \div 10

\* uint64(test.allocSizeMB) * 1024 * 1024 * 12 / 10
ExpectedMax(allocSizeMB) == (allocSizeMB * 12) \div 10

\* Values around the two ends of the 90%-120% band, and zero.
Band ==
    {0, ExpectedMin(AllocSizeMB) - 1, ExpectedMin(AllocSizeMB),
     ExpectedMax(AllocSizeMB), ExpectedMax(AllocSizeMB) + 1}

\* The snapshots GetMemLimitRelatedStats can have returned to the test:
\* each field at, just inside and just outside every threshold the test
\* compares it with.
FinalStats ==
    { S \in [ MemoryLimit : {0, 512}, HeapGoal : 0 .. 200, HeapLive : Band,
              MappedReady : 0 .. 100, HeapFree : {0}, TotalAlloc : Band,
              TotalFree : {0, MaxTotalFreeMB, MaxTotalFreeMB + 1} ] :
        /\ S.MappedReady \in
              {0} \cup {S.HeapLive + d : d \in {MinOverheadMB - 1, MinOverheadMB,
                                                 MaxOverheadMB, MaxOverheadMB + 1}}
        /\ S.HeapGoal \in
              {0, S.HeapLive, S.HeapLive + MaxGrowthMB,
               S.HeapLive + MaxGrowthMB + 1}
              \cup {g \in {S.HeapLive - 1} : g >= 0} }

\* The two fields of initialStats the test looks at.
InitialStats ==
    [ HeapLive : {0, ExpectedMin(AllocSizeMB)},
      TotalAlloc : {0, ExpectedMin(AllocSizeMB)} ]

\* The test has both snapshots and is about to run its checks (line 222).
InitTest ==
    \E I \in InitialStats : \E F \in FinalStats :
        test = [ pc |-> "L222", exit |-> -1, allocSizeMB |-> AllocSizeMB,
                 initialStats |-> I, finalStats |-> F, checked |-> <<>> ]

\* One if statement of the checks: at line p, with the condition failed
\* the process logs and calls os.Exit(1); otherwise it goes on to line q.
Check(p, failed, q) ==
    /\ test.pc = p
    /\ test' = [test EXCEPT !.checked = Append(@, p),
                            !.pc = IF failed THEN "exited" ELSE q,
                            !.exit = IF failed THEN 1 ELSE @]

\* if finalStats.MemoryLimit == 0
Check_L222 == Check("L222", test.finalStats.MemoryLimit = 0, "L233")

\* if finalStats.HeapGoal == 0
Check_L233 == Check("L233", test.finalStats.HeapGoal = 0, "L243")

\* if finalStats.HeapLive <= initialStats.HeapLive
Check_L243 ==
    Check("L243", test.finalStats.HeapLive <= test.initialStats.HeapLive, "L257")

\* Line 257 logging the failure without ending the process.
Check_L257_Warn == Check("L257", FALSE, "L268")

\* if finalStats.MappedReady == 0
Check_L257 == Check("L257", test.finalStats.MappedReady = 0, "L268")

\* if finalStats.TotalAlloc <= initialStats.TotalAlloc
Check_L268 ==
    Check("L268", test.finalStats.TotalAlloc <= test.initialStats.TotalAlloc, "L283")

\* if finalStats.HeapLive < expectedMinHeapLive
Check_L283 ==
    Check("L283", test.finalStats.HeapLive < ExpectedMin(test.allocSizeMB), "L293")

\* if finalStats.HeapLive > expectedMaxHeapLive
Check_L293 ==
    Check("L293", test.finalStats.HeapLive > ExpectedMax(test.allocSizeMB), "L310")

\* if finalStats.MappedReady < expectedMinMappedReady
Check_L310 ==
    Check("L310",
          test.finalStats.MappedReady < test.finalStats.HeapLive + MinOverheadMB,
          "L320")

\* if finalStats.MappedReady > expectedMaxMappedReady
Check_L320 ==
    Check("L320",
          test.finalStats.MappedReady > test.finalStats.HeapLive + MaxOverheadMB,
          "L337")

\* if finalStats.HeapGoal < expectedMinHeapGoal
Check_L337 ==
    Check("L337", test.finalStats.HeapGoal < test.finalStats.HeapLive, "L347")

\* if finalStats.HeapGoal > expectedMaxHeapGoal
Check_L347 ==
    Check("L347",
          test.finalStats.HeapGoal > test.finalStats.HeapLive + MaxGrowthMB,
          "L364")

\* if finalStats.TotalAlloc < expectedMinTotalAlloc
Check_L364 ==
    Check("L364", test.finalStats.TotalAlloc < ExpectedMin(test.allocSizeMB), "L373")

\* if finalStats.TotalAlloc > expectedMaxTotalAlloc
Check_L373 ==
    Check("L373", test.finalStats.TotalAlloc > ExpectedMax(test.allocSizeMB), "L388")

\* if finalStats.TotalFree > expectedMaxTotalFree
Check_L388 ==
    Check("L388", test.finalStats.TotalFree > MaxTotalFreeMB, "L51")

\* runSanityCheckTest returns, main logs the duration and returns: the
\* process exits with code 0.
Main_L51 ==
    /\ test.pc = "L51"
    /\ test' = [test EXCEPT !.pc = "exited", !.exit = 0]

\* One step of the sanity test process.
SanityStep ==
    \/ Check_L222 \/ Check_L233 \/ Check_L243 \/ Check_L257 \/ Check_L268
    \/ Check_L283 \/ Check_L293 \/ Check_L310 \/ Check_L320 \/ Check_L337
    \/ Check_L347 \/ Check_L364 \/ Check_L373 \/ Check_L388
    \/ Main_L51

\* ------------------------------------------- the harness (TestRunner.RunTest)

\* for i := 0; i < 10; i++
MaxAttempts == 10

\* The exit codes a container ends with, and the codes a scenario expects.
ExitCodes == 0 .. MaxExit

\* The memory usage one stats reading reports, in units; 0 is a reading
\* without a usable figure.
Usages == 0 .. MaxUsage

\* The container the Docker daemon creates for the scenario.
ContainerID == "c1"

\* tr.dockerClient.ContainerRemove(ctx, containerID,
\*     types.ContainerRemoveOptions{Force: true})
ForcedRemove(id) == [op |-> "ContainerRemove", id |-> id, Force |-> TRUE]

\* RunTest has been called with a scenario expecting exit code e: result
\* is fresh, nothing has been asked of Docker yet.
RunTestCalled(e) ==
    [ pc |-> "L99", ExpectedExitCode |-> e,
      Status |-> "", ExitCode |-> -1, Reason |-> "",
      PeakMemoryMB |-> -1, FinalMemoryMB |-> -1, warned |-> FALSE,
      containerID |-> "", defers |-> <<>>, calls |-> {},
      peakMemory |-> 0, finalMemory |-> 0, statsCollected |-> FALSE,
      col |-> [pc |-> "none", i |-> 0, usage |-> 0],
      statsCancelled |-> FALSE,
      armed |-> FALSE, waiting |-> FALSE,
      waitCh |-> <<>>, errCh |-> <<>>, done |-> FALSE,
      exited |-> -1, events |-> <<>>, taken |-> "none" ]

InitRun == \E e \in ExitCodes : run = RunTestCalled(e)

\* resp, err := ContainerCreate(...); on an error the result is failed and
\* returned at once, nothing having been deferred.
Run_L99 ==
    /\ run.pc = "L99"
    /\ \/ run' = [run EXCEPT !.Status = "failed",
                             !.Reason = "Container creation failed",
                             !.pc = "returned"]
       \/ run' = [run EXCEPT !.containerID = ContainerID, !.pc = "L110"]

\* The container is created and left to the daemon's AutoRemove: no
\* removal is deferred.
Run_L110_AutoRemove ==
    /\ run.pc = "L110"
    /\ run' = [run EXCEPT !.pc = "L116"]

\* defer func() { ContainerRemove(ctx, containerID, {Force: true}) }()
Run_L110 ==
    /\ run.pc = "L110"
    /\ run' = [run EXCEPT !.defers = Append(@, "ContainerRemove"),
                          !.pc = "L116"]

\* if err := ContainerStart(...); err != nil { ...; return result }
Run_L116 ==
    /\ run.pc = "L116"
    /\ \/ run' = [run EXCEPT !.Status = "failed",
                             !.Reason = "Container start failed",
                             !.pc = "deferred"]
       \/ run' = [run EXCEPT !.pc = "L126"]

\* statsCtx, statsCancel := context.WithCancel(ctx); defer statsCancel();
\* the three variables are declared and the collector goroutine started.
Run_L126 ==
    /\ run.pc = "L126"
    /\ run' = [run EXCEPT !.defers = Append(@, "statsCancel"),
                          !.col = [pc |-> "L135", i |-> 0, usage |-> 0],
                          !.pc = "L185"]

\* time.Sleep(200 * time.Millisecond)
Run_L185 ==
    /\ run.pc = "L185"
    /\ run' = [run EXCEPT !.pc = "L189"]

\* waitCtx, cancel := context.WithTimeout(ctx, timeout); defer cancel()
Run_L189 ==
    /\ run.pc = "L189"
    /\ run' = [run EXCEPT !.armed = TRUE,
                          !.defers = Append(@, "cancel"),
                          !.pc = "L192"]

\* waitCh, errCh := ContainerWait(waitCtx, containerID, ...)
Run_L192 ==
    /\ run.pc = "L192"
    /\ run' = [run EXCEPT !.waiting = TRUE, !.pc = "L194"]

\* select: one of the cases that can proceed is taken; with none the
\* goroutine stays blocked.
\* case waitResult := <-waitCh
Run_L195 ==
    /\ run.pc = "L194"
    /\ run.waitCh # <<>>
    /\ run' = [run EXCEPT !.ExitCode = Head(run.waitCh),
                          !.waitCh = Tail(@),
                          !.taken = "waitCh",
                          !.pc = "L201"]

\* case err := <-errCh
Run_L242 ==
    /\ run.pc = "L194"
    /\ run.errCh # <<>>
    /\ run' = [run EXCEPT !.Status = "failed",
                          !.Reason = "Container wait failed",
                          !.errCh = Tail(@),
                          !.taken = "errCh",
                          !.pc = "L270"]

\* case <-waitCtx.Done()
Run_L249 ==
    /\ run.pc = "L194"
    /\ run.done
    /\ run' = [run EXCEPT !.Status = "timeout",
                          !.Reason = "Test exceeded timeout",
                          !.taken = "Done",
                          !.pc = "L259"]

\* logs, err := ContainerLogs(...); if err == nil { defer logs.Close() ... }
Logs(next) ==
    \/ run' = [run EXCEPT !.defers = Append(@, "logs.Close"), !.pc = next]
    \/ run' = [run EXCEPT !.pc = next]

Run_L201 == run.pc = "L201" /\ Logs("L216")

\* result.MemoryStats.PeakMemoryMB = float64(peakMemory) / (1024 * 1024)
Run_L216 ==
    /\ run.pc = "L216"
    /\ run' = [run EXCEPT !.PeakMemoryMB = run.peakMemory, !.pc = "L217"]

\* result.MemoryStats.FinalMemoryMB = float64(finalMemory) / (1024 * 1024)
Run_L217 ==
    /\ run.pc = "L217"
    /\ run' = [run EXCEPT !.FinalMemoryMB = run.finalMemory, !.pc = "L219"]

\* if !statsCollected { log.Printf("Warning: ...") }
Run_L219 ==
    /\ run.pc = "L219"
    /\ run' = [run EXCEPT !.warned = ~run.statsCollected, !.pc = "L227"]

\* Any exit code passes.
Run_L227_Lenient ==
    /\ run.pc = "L227"
    /\ run' = [run EXCEPT !.Status = "passed", !.pc = "L270"]

\* if result.ExitCode == config.ExpectedExitCode { passed } else { failed }
Run_L227 ==
    /\ run.pc = "L227"
    /\ run' = [run EXCEPT
                 !.Status = IF run.ExitCode = run.ExpectedExitCode
                            THEN "passed" ELSE "failed",
                 !.Reason = IF run.ExitCode = run.ExpectedExitCode
                            THEN @ ELSE "Unexpected exit code",
                 !.pc = "L270"]

\* The timeout case reporting the memory figures as the waitCh case does.
Run_L259_Stats == run.pc = "L259" /\ Logs("L216")

\* The logs of a timed-out container.
Run_L259 == run.pc = "L259" /\ Logs("L270")

\* return result: the deferred calls run before RunTest returns.
Run_L271 ==
    /\ run.pc = "L270"
    /\ run' = [run EXCEPT !.pc = "deferred"]

\* The deferred calls, last registered first; after the last of them
\* RunTest has returned.
Run_Deferred ==
    /\ run.pc = "deferred"
    /\ LET n == Len(run.defers)
           d == run.defers[n]
       IN  IF n = 0
           THEN run' = [run EXCEPT !.pc = "returned"]
           ELSE run' = [run EXCEPT
                          !.defers = SubSeq(@, 1, n - 1),
                          !.calls = IF d = "ContainerRemove"
                                    THEN @ \cup {ForcedRemove(run.containerID)}
                                    ELSE @,
                          !.statsCancelled = IF d = "statsCancel" THEN TRUE ELSE @,
                          !.done = IF d = "cancel" THEN TRUE ELSE @]

\* The goroutine of RunTest.
RunStep ==
    \/ Run_L99 \/ Run_L110 \/ Run_L116 \/ Run_L126 \/ Run_L185 \/ Run_L189
    \/ Run_L192 \/ Run_L195 \/ Run_L242 \/ Run_L249 \/ Run_L201
    \/ Run_L216 \/ Run_L217 \/ Run_L219 \/ Run_L227 \/ Run_L259
    \/ Run_L271 \/ Run_Deferred

\* for i := 0; i < 10; i++
Col_L135 ==
    /\ run.col.pc = "L135"
    /\ run' = [run EXCEPT !.col.pc = IF run.col.i < MaxAttempts
                                     THEN "L136" ELSE "done"]

\* One attempt: ContainerStats and the decoding fail (always once statsCtx
\* is cancelled), or give a usage figure.
\* stats, err := ContainerStats(statsCtx, ...): an error, or a decoding
\* error: sleep 50 ms, continue.
Col_L137 ==
    /\ run.col.pc = "L136"
    /\ run' = [run EXCEPT !.col.i = @ + 1, !.col.pc = "L135"]

\* The reading is decoded and usage computed (lines 143-167); if usage > 0
\* the variables are written, else the attempt ends with the sleep.
Col_L153 ==
    /\ run.col.pc = "L136"
    /\ ~run.statsCancelled
    /\ \E u \in Usages :
          run' = [run EXCEPT !.col.usage = u,
                             !.col.pc = IF u > 0 THEN "L170" ELSE "L180"]

\* statsCollected = true
Col_L170 ==
    /\ run.col.pc = "L170"
    /\ run' = [run EXCEPT !.statsCollected = TRUE, !.col.pc = "L171"]

\* if usage > peakMemory
Col_L171 ==
    /\ run.col.pc = "L171"
    /\ run' = [run EXCEPT !.col.pc = IF run.col.usage > run.peakMemory
                                     THEN "L172" ELSE "L174"]

\* peakMemory = usage
Col_L172 ==
    /\ run.col.pc = "L172"
    /\ run' = [run EXCEPT !.peakMemory = run.col.usage, !.col.pc = "L174"]

\* finalMemory = usage
Col_L174 ==
    /\ run.col.pc = "L174"
    /\ run' = [run EXCEPT !.finalMemory = run.col.usage, !.col.pc = "L180"]

\* time.Sleep(100 * time.Millisecond), i++
Col_L180 ==
    /\ run.col.pc = "L180"
    /\ run' = [run EXCEPT !.col.i = @ + 1, !.col.pc = "L135"]

\* The stats collector goroutine.
CollectorStep ==
    \/ Col_L135 \/ Col_L137 \/ Col_L153 \/ Col_L170 \/ Col_L171
    \/ Col_L172 \/ Col_L174 \/ Col_L180

\* events: what has happened, in order, by the time the select takes a
\* case; what happens after that is not recorded.
Before(events, e) == IF run.taken = "none" THEN Append(events, e) ELSE events

\* The started container ends with some exit code.
Container_Exits ==
    /\ run.pc \notin {"L99", "L110", "L116", "returned"}
    /\ run.Reason # "Container start failed"
    /\ run.exited = -1
    /\ \E code \in ExitCodes :
          run' = [run EXCEPT !.exited = code,
                             !.events = Before(@, "finish")]

\* The timeout of waitCtx elapses: Done is closed.
Timeout_Elapses ==
    /\ run.armed
    /\ ~run.done
    /\ run' = [run EXCEPT !.done = TRUE, !.events = Before(@, "timeout")]

\* The Docker client answers the wait once: with the status code of the
\* ended container on waitCh, or
Wait_Result ==
    /\ run.waiting
    /\ run.taken = "none"
    /\ run.waitCh = <<>> /\ run.errCh = <<>>
    /\ run.exited # -1
    /\ run' = [run EXCEPT !.waitCh = <<run.exited>>]

\* with an error on errCh.
Wait_Error ==
    /\ run.waiting
    /\ run.taken = "none"
    /\ run.waitCh = <<>> /\ run.errCh = <<>>
    /\ run' = [run EXCEPT !.errCh = <<"error">>]

\* Docker and the clock.
DockerStep ==
    \/ Container_Exits \/ Timeout_Elapses \/ Wait_Result \/ Wait_Error

\* ------------------------------------------------------------ history

\* The counters as a reader sees them: the six fields and the runtime's goal.
View(g) ==
    [ memoryLimit |-> g.memoryLimit,
      heapGoal    |-> runtimeHeapGoal(g),
      heapLive    |-> g.heapLive,
      mappedReady |-> g.mappedReady,
      heapFree    |-> g.heapFree,
      totalAlloc  |-> g.totalAlloc,
      totalFree   |-> g.totalFree ]

Fields == {"memoryLimit", "heapGoal", "heapLive", "mappedReady", "heapFree",
           "totalAlloc", "totalFree"}

\* The record v restricted to the fields W.
Proj(v, W) == [f \in W |-> v[f]]

\* The fields a call standing at p has read so far.
HasRead(p) ==
    CASE p = "L111" -> {"memoryLimit"}
      [] p \in {"L113", "L118"} -> {"memoryLimit", "mappedReady"}
      [] p \in {"L120", "L126"} -> {"memoryLimit", "mappedReady", "heapFree"}
      [] p = "L127" -> {"memoryLimit", "mappedReady", "heapFree", "heapGoal"}
      [] p \in {"L131", "L135"} ->
            {"memoryLimit", "mappedReady", "heapFree", "heapGoal", "heapLive"}
      [] p = "L184" -> {"heapGoal"}
      [] p = "L186" -> {"heapGoal", "memoryLimit"}
      [] p = "L187" -> {"heapGoal", "memoryLimit", "heapLive"}
      [] p = "L188" -> {"heapGoal", "memoryLimit", "heapLive", "mappedReady"}
      [] p = "L189" -> Fields \ {"totalAlloc", "totalFree"}
      [] p = "L190" -> Fields \ {"totalFree"}
      [] p = "L191" -> Fields
      [] OTHER -> {}

\* changed[c]: the runtime updated a counter since c's current call began.
ChangedHistory ==
    changed' = [c \in Callers |->
                   IF pc'[c] = "idle" \/ pc[c] = "idle" THEN FALSE
                   ELSE changed[c] \/ gc' # gc]

\* last[c].reached: the boolean c's previous IsMemLimitReached call returned.
LastReached ==
    last' = [c \in Callers |->
                IF pc[c] \in IsMemReturned /\ pc'[c] = "idle"
                THEN [last[c] EXCEPT !.reached = IF ret[c] THEN "true" ELSE "false"]
                ELSE last[c]]

\* last[c].HeapLive: the HeapLive field of c's previous snapshot.
LastStats ==
    last' = [c \in Callers |->
                IF pc[c] \in StatsReturned /\ pc'[c] = "idle"
                THEN [last[c] EXCEPT !.HeapLive = stats[c].HeapLive]
                ELSE last[c]]

\* held[c]: every combination of values the watched fields took at an
\* instant since c's current call began; in the state a call returns in,
\* the combinations they took during the call.
HeldHistory ==
    /\ watch' = watch
    /\ held' = [c \in Callers |->
                   IF pc'[c] = "idle" THEN {}
                   ELSE held[c] \cup {Proj(View(gc'), watch)}]

\* held[c], for the pressure decision: the answers lines 110-135 give on
\* the counters of each instant of c's call, from the call to its return
\* statement.
VerdictHistory ==
    /\ watch' = watch
    /\ held' = [c \in Callers |->
                   IF pc'[c] = "idle" THEN {}
                   ELSE IF pc[c] \in IsMemReturned THEN held[c]
                   ELSE held[c] \cup {Decision(gc')}]

\* last[c].reached, for the pressure decision: how the result of c's
\* previous call compares with the answers of the instants of that call.
LastVerdict ==
    last' = [c \in Callers |->
                IF pc[c] \in IsMemReturned /\ pc'[c] = "idle"
                THEN [last[c] EXCEPT !.reached =
                         IF ret[c] \in held[c] THEN "agreed"
                         ELSE IF ret[c] THEN "false positive"
                         ELSE "false negative"]
                ELSE last[c]]

InStats(c) == pc[c] \in StatsRunning \cup StatsReturned

\* The values caller c's current call holds, under the names of View.
Seen(c) ==
    IF InStats(c)
    THEN [ memoryLimit |-> stats[c].MemoryLimit,
           heapGoal    |-> stats[c].HeapGoal,
           heapLive    |-> stats[c].HeapLive,
           mappedReady |-> stats[c].MappedReady,
           heapFree    |-> stats[c].HeapFree,
           totalAlloc  |-> stats[c].TotalAlloc,
           totalFree   |-> stats[c].TotalFree ]
    ELSE [ memoryLimit |-> loc[c].memoryLimit,
           heapGoal    |-> loc[c].heapGoal,
           heapLive    |-> loc[c].heapLive,
           mappedReady |-> loc[c].mappedReady,
           heapFree    |-> loc[c].heapFree,
           totalAlloc  |-> 0,
           totalFree   |-> 0 ]

\* The value x of field f as c's operation holds it: the stats hold the
\* limit as uint64, IsMemLimitReached holds it as the int64 it loaded.
Reported(c, f, x) ==
    IF f = "memoryLimit" /\ InStats(c) THEN x % Mod ELSE x

\* The watched counter as c's snapshot shows it.
Cur(c) == CHOOSE x \in Uint64 : \E f \in watch : x = Seen(c)[f]

\* The value x of counter f as a snapshot shows it: the limit as uint64.
Shown(f, x) == IF f = "memoryLimit" THEN ToUint64(x) ELSE x

\* The ways the watched counters, as a snapshot shows them, move between
\* the controller g and the controller h.
Moves(g, h) ==
    {<<f, "up">> : f \in {w \in watch :
                              Shown(w, View(h)[w]) > Shown(w, View(g)[w])}}
    \cup
    {<<f, "down">> : f \in {w \in watch :
                                Shown(w, View(h)[w]) < Shown(w, View(g)[w])}}

\* A step of the runtime that moves a watched counter.
Watched == Manager /\ Moves(gc, gc') # {}

\* held[c], for a series of snapshots: the moves of the watched counters
\* since c's latest call began.
MovesHistory ==
    /\ watch' = watch
    /\ held' = [c \in Callers |->
                   IF pc[c] = "idle" /\ pc'[c] # "idle" THEN {}
                   ELSE held[c] \cup Moves(gc, gc')]

\* last[c], for a series of snapshots: prev, the watched counter as c's
\* previous snapshot showed it (-1 before the first); moves, the moves of
\* the watched counters since that previous call began; idle, their moves
\* between the return of the previous call and the current call.
LastSnapshot ==
    last' = [c \in Callers |->
                IF pc[c] \in StatsReturned /\ pc'[c] = "idle"
                THEN [prev  |-> Cur(c),
                      moves |-> {},
                      idle  |-> {}]
                ELSE IF pc[c] = "idle" /\ pc'[c] # "idle"
                THEN [last[c] EXCEPT !.moves = held[c]]
                ELSE IF pc[c] = "idle" /\ last[c].prev # -1
                THEN [last[c] EXCEPT !.idle = @ \cup Moves(gc, gc')]
                ELSE IF pc[c] # "idle"
                THEN [last[c] EXCEPT !.moves = @ \cup Moves(gc, gc')]
                ELSE last[c]]

\* held[c], for the scenarios: whether the process was in scenario B's
\* state at each instant of c's call, from the call to its return
\* statement.
ScenarioHistory ==
    /\ watch' = watch
    /\ held' = [c \in Callers |->
                   IF pc'[c] = "idle" THEN {}
                   ELSE IF pc[c] \in IsMemReturned THEN held[c]
                   ELSE held[c] \cup {Thrashing(gc')}]

\* ------------------------------------------------------ specifications

\* The process after start-up: no GOMEMLIMIT set (math.MaxInt64), an empty
\* heap, nothing mapped, and no call in progress.
InitProg ==
    /\ gc = [ memoryLimit |-> MaxInt64, gcPercentHeapGoal |-> MaxBytes,
              heapLive |-> 0, heapFree |-> 0, totalAlloc |-> 0,
              totalFree |-> 0, mappedReady |-> 0 ]
    /\ pc = [c \in Callers |-> "idle"]
    /\ loc = [c \in Callers |-> NoLocals]
    /\ stats = [c \in Callers |-> MemLimitRelatedStats]
    /\ ret = [c \in Callers |-> FALSE]
    /\ test = Off
    /\ run = Off

InitHistory ==
    /\ changed = [c \in Callers |-> FALSE]
    /\ last = [c \in Callers |-> [reached |-> "none", HeapLive |-> -1]]
    /\ watch = {}
    /\ held = [c \in Callers |-> {}]

Init == InitProg /\ InitHistory

\* Caller c's steps in IsMemLimitReached: the call, its lines, the return.
IsMemCaller(c) ==
    \/ IsMemLimitReached(c)
    \/ IsMemStep(c)
    \/ IsMemReturn(c)

\* Caller c's steps in GetMemLimitRelatedStats.
StatsCaller(c) ==
    \/ GetMemLimitRelatedStats(c)
    \/ StatsStep(c)
    \/ StatsReturn(c)

\* Spec: one goroutine calls both operations while the runtime updates
\* every counter.
Next ==
    /\ \/ Manager
       \/ \E c \in Solo : IsMemCaller(c) \/ StatsCaller(c)
    /\ ChangedHistory
    /\ LastStats
    /\ UNCHANGED <<watch, held>>
    /\ UNCHANGED <<test, run>>

Spec == Init /\ [][Next]_vars

\* SpecDecision: one goroutine calls IsMemLimitReached while the runtime
\* updates the counters the decision reads.
NextDecision ==
    /\ \/ Pacing
       \/ \E c \in Solo : IsMemCaller(c)
    /\ UNCHANGED <<changed, last, watch, held>>
    /\ UNCHANGED <<test, run>>

SpecDecision == Init /\ [][NextDecision]_vars

\* SpecCallers: several goroutines call IsMemLimitReached concurrently.
NextCallers ==
    /\ \/ Pacing
       \/ \E c \in Callers : IsMemCaller(c)
    /\ LastReached
    /\ UNCHANGED <<changed, watch, held>>
    /\ UNCHANGED <<test, run>>

SpecCallers == Init /\ [][NextCallers]_vars

\* SpecTorn: as Spec, recording the values one counter takes during each
\* call.
Watches == {{f} : f \in Fields}

InitTorn ==
    /\ InitProg
    /\ changed = [c \in Callers |-> FALSE]
    /\ last = [c \in Callers |-> [reached |-> "none", HeapLive |-> -1]]
    /\ watch \in Watches
    /\ held = [c \in Callers |-> {}]

NextTorn ==
    /\ \/ Manager
       \/ \E c \in Solo : IsMemCaller(c) \/ StatsCaller(c)
    /\ HeldHistory
    /\ UNCHANGED <<changed, last>>
    /\ UNCHANGED <<test, run>>

SpecTorn == InitTorn /\ [][NextTorn]_vars

\* SpecSkew: as Spec, recording the combinations of values a pair of
\* counters takes during each call.
Pairs == {{"heapLive", "mappedReady"}}

InitSkew ==
    /\ InitProg
    /\ changed = [c \in Callers |-> FALSE]
    /\ last = [c \in Callers |-> [reached |-> "none", HeapLive |-> -1]]
    /\ watch \in Pairs
    /\ held = [c \in Callers |-> {}]

NextSkew ==
    /\ \/ Manager
       \/ \E c \in Solo : StatsCaller(c)
    /\ HeldHistory
    /\ UNCHANGED <<changed, last>>
    /\ UNCHANGED <<test, run>>

SpecSkew == InitSkew /\ [][NextSkew]_vars

\* SpecHeuristic: as SpecDecision, recording the answer the decision
\* gives at each instant of a call and whether the call's result was one
\* of them.
NextHeuristic ==
    /\ \/ Pacing
       \/ \E c \in Solo : IsMemCaller(c)
    /\ ChangedHistory
    /\ VerdictHistory
    /\ LastVerdict
    /\ UNCHANGED <<test, run>>

SpecHeuristic == Init /\ [][NextHeuristic]_vars

\* SpecSeries: one goroutine takes one snapshot after another while the
\* runtime updates the one counter whose history the run records.
InitSeries ==
    /\ InitProg
    /\ changed = [c \in Callers |-> FALSE]
    /\ last = [c \in Callers |-> [prev |-> -1, moves |-> {}, idle |-> {}]]
    /\ watch \in Watches
    /\ held = [c \in Callers |-> {}]

NextSeries ==
    /\ \/ Watched
       \/ \E c \in Solo : StatsCaller(c)
    /\ MovesHistory
    /\ LastSnapshot
    /\ UNCHANGED changed
    /\ UNCHANGED <<test, run>>

SpecSeries == InitSeries /\ [][NextSeries]_vars

\* SpecScenario: a process started with a soft limit that it never
\* overrides, high above the working set (scenario A), below it
\* (scenario B) or anything else, calls IsMemLimitReached while its
\* workload runs.
InitScenario ==
    /\ \E l \in Limits :
          gc = [ memoryLimit |-> l, gcPercentHeapGoal |-> MaxBytes,
                 heapLive |-> 0, heapFree |-> 0, totalAlloc |-> 0,
                 totalFree |-> 0, mappedReady |-> 0 ]
    /\ pc = [c \in Callers |-> "idle"]
    /\ loc = [c \in Callers |-> NoLocals]
    /\ stats = [c \in Callers |-> MemLimitRelatedStats]
    /\ ret = [c \in Callers |-> FALSE]
    /\ test = Off
    /\ run = Off
    /\ InitHistory

NextScenario ==
    /\ \/ Workload
       \/ \E c \in Solo : IsMemCaller(c)
    /\ ChangedHistory
    /\ ScenarioHistory
    /\ UNCHANGED last
    /\ UNCHANGED <<test, run>>

SpecScenario == InitScenario /\ [][NextScenario]_vars

\* SpecPressure: as SpecScenario, with the working set of scenario B and
\* the runtime's bookkeeping of ready memory.
NextPressure ==
    /\ \/ Retaining
       \/ \E c \in Solo : IsMemCaller(c)
    /\ ChangedHistory
    /\ ScenarioHistory
    /\ UNCHANGED last
    /\ UNCHANGED <<test, run>>

SpecPressure == InitScenario /\ [][NextPressure]_vars

\* SpecBookkeeping: one goroutine calls both operations while the runtime
\* updates the counters so that, at every instant, the live heap and the
\* free spans fit in the bytes mapped ready; the run records how the three
\* counters move during each call.
InitBookkeeping ==
    /\ InitProg
    /\ changed = [c \in Callers |-> FALSE]
    /\ last = [c \in Callers |-> [reached |-> "none", HeapLive |-> -1]]
    /\ watch = {"heapLive", "heapFree", "mappedReady"}
    /\ held = [c \in Callers |-> {}]

NextBookkeeping ==
    /\ \/ Bookkeeping
       \/ \E c \in Solo : IsMemCaller(c) \/ StatsCaller(c)
    /\ ChangedHistory
    /\ MovesHistory
    /\ UNCHANGED last
    /\ UNCHANGED <<test, run>>

SpecBookkeeping == InitBookkeeping /\ [][NextBookkeeping]_vars

\* SpecSanity: the sanity test.  A process started with a soft limit that
\* it never overrides allocates and takes snapshots from one goroutine,
\* in healthy operation.
NextSanity ==
    /\ \/ Sanity
       \/ \E c \in Solo : StatsCaller(c)
    /\ ChangedHistory
    /\ UNCHANGED <<last, watch, held>>
    /\ UNCHANGED <<test, run>>

SpecSanity == InitScenario /\ [][NextSanity]_vars

\* SpecMapping: a process started with a soft limit that it never
\* overrides calls IsMemLimitReached while its ready bytes grow up to
\* 2^63.
NextMapping ==
    /\ \/ Mapping
       \/ \E c \in Solo : IsMemCaller(c)
    /\ ChangedHistory
    /\ UNCHANGED <<last, watch, held>>
    /\ UNCHANGED <<test, run>>

SpecMapping == InitScenario /\ [][NextMapping]_vars

\* SpecAgree: one goroutine takes snapshots while the others call
\* IsMemLimitReached and the runtime updates the counters the decision
\* reads.
NextAgree ==
    /\ \/ Pacing
       \/ \E c \in Solo : StatsCaller(c)
       \/ \E c \in Callers \ Solo : IsMemCaller(c)
    /\ ChangedHistory
    /\ UNCHANGED <<last, watch, held>>
    /\ UNCHANGED <<test, run>>

SpecAgree == Init /\ [][NextAgree]_vars

\* The variables of the package while only the test framework is looked at.
InitPackage ==
    /\ gc = [ memoryLimit |-> MaxInt64, gcPercentHeapGoal |-> MaxBytes,
              heapLive |-> 0, heapFree |-> 0, totalAlloc |-> 0,
              totalFree |-> 0, mappedReady |-> 0 ]
    /\ pc = [c \in Callers |-> "idle"]
    /\ loc = [c \in Callers |-> NoLocals]
    /\ stats = [c \in Callers |-> MemLimitRelatedStats]
    /\ ret = [c \in Callers |-> FALSE]
    /\ InitHistory

package == <<gc, pc, loc, stats, ret, changed, last, watch, held>>

\* SpecVerdict: the sanity test runs its checks on the two snapshots it
\* took.
InitVerdict == InitPackage /\ InitTest /\ run = Off

NextVerdict ==
    /\ SanityStep
    /\ UNCHANGED package
    /\ UNCHANGED run

SpecVerdict == InitVerdict /\ [][NextVerdict]_vars

\* SpecRunTest: one call of RunTest, its stats collector, Docker and the
\* clock.
InitRunTest == InitPackage /\ test = Off /\ InitRun

NextRunTest ==
    /\ \/ RunStep
       \/ CollectorStep
       \/ DockerStep
    /\ UNCHANGED package
    /\ UNCHANGED test

SpecRunTest == InitRunTest /\ [][NextRunTest]_vars

\* ------------------------------------------------------------- claims

\* The soft limit a call compares against: the limit it read, as uint64.
LimitRead(c) == ToUint64(loc[c].memoryLimit)

\* The runtime's own view says the live heap has reached its goal.
GoalExceeded == gc.heapLive >= runtimeHeapGoal(gc)

\* C1 (fast-path soundness): a call of IsMemLimitReached that read a
\* MappedReady strictly below the soft limit it read has returned false,
\* whatever HeapFree, HeapLive and the heap goal are.
C1_FastPathSound ==
    \A c \in Solo :
        (pc[c] \in IsMemReturned /\ loc[c].mappedReady < LimitRead(c))
            => ret[c] = FALSE

\* A call returned false on the fast path while the live heap is at its goal.
C1_Witness ==
    \E c \in Solo :
        /\ pc[c] = "L113"
        /\ loc[c].mappedReady < LimitRead(c)
        /\ ret[c] = FALSE
        /\ GoalExceeded

\* C2 (heap-free credit): a call that read MappedReady >= the soft limit
\* and a HeapFree with (MappedReady - HeapFree) < the soft limit, the
\* difference taken in unsigned arithmetic as the code takes it, has
\* returned false, whatever HeapLive and the heap goal are.
C2_FreeCredit ==
    \A c \in Solo :
        ( /\ pc[c] \in {"L120", "L131", "L135"}
          /\ loc[c].mappedReady >= LimitRead(c)
          /\ Sub64(loc[c].mappedReady, loc[c].heapFree) < LimitRead(c) )
            => ret[c] = FALSE

\* A call returned false on the credit while the live heap is at its goal.
C2_Witness ==
    \E c \in Solo :
        /\ pc[c] = "L120"
        /\ loc[c].mappedReady >= LimitRead(c)
        /\ loc[c].heapFree > 0
        /\ Sub64(loc[c].mappedReady, loc[c].heapFree) < LimitRead(c)
        /\ ret[c] = FALSE
        /\ GoalExceeded

\* C3 (goal tier): a call on which neither the fast check nor the credit
\* returned has returned false if the HeapLive it read is below the goal
\* it computed and true otherwise, so HeapLive = HeapGoal gives true.
C3_GoalTier ==
    \A c \in Solo :
        ( /\ pc[c] \in IsMemReturned
          /\ loc[c].mappedReady >= LimitRead(c)
          /\ Sub64(loc[c].mappedReady, loc[c].heapFree) >= LimitRead(c) )
            => /\ pc[c] \in {"L131", "L135"}
               /\ ret[c] = (loc[c].heapLive >= loc[c].heapGoal)

\* A call returned true with HeapLive equal to a non-zero HeapGoal.
C3_Witness ==
    \E c \in Solo :
        /\ pc[c] = "L135"
        /\ loc[c].heapLive = loc[c].heapGoal
        /\ loc[c].heapGoal > 0
        /\ ret[c] = TRUE

\* C4 (pure reader): every step that changes a counter of the controller
\* leaves every caller where it was, so no step of IsMemLimitReached or
\* GetMemLimitRelatedStats changes a counter: the counters change only in
\* the runtime's own steps.
C4_PureReader == [][gc' # gc => UNCHANGED <<pc, loc, stats, ret>>]_vars

\* A call of either operation has returned and the runtime updated a
\* counter while it ran.
C4_Witness ==
    \E c \in Solo :
        /\ pc[c] \in IsMemReturned \cup StatsReturned
        /\ changed[c]

\* C6 (total operations): in every counter state a call in progress can
\* take its next step, a returned IsMemLimitReached holds a boolean and a
\* returned GetMemLimitRelatedStats holds seven unsigned 64-bit values.
C6_Total ==
    \A c \in Solo :
        /\ pc[c] \in IsMemRunning => ENABLED IsMemStep(c)
        /\ pc[c] \in StatsRunning => ENABLED StatsStep(c)
        /\ pc[c] \in IsMemReturned => ret[c] \in BOOLEAN
        /\ pc[c] \in StatsReturned =>
              \A f \in DOMAIN stats[c] : stats[c][f] \in Uint64

\* IsMemLimitReached returned with a soft limit of zero and more free
\* bytes than ready bytes read.
C6_Witness ==
    \E c \in Solo :
        /\ pc[c] \in {"L131", "L135"}
        /\ loc[c].memoryLimit = 0
        /\ loc[c].heapFree > loc[c].mappedReady

\* What GetMemLimitRelatedStats reports of the controller g when nothing
\* moves: each field from its counter, the goal from the runtime's function.
Snapshot(g) ==
    [ MemoryLimit |-> ToUint64(g.memoryLimit),
      HeapGoal    |-> runtimeHeapGoal(g),
      HeapLive    |-> g.heapLive,
      MappedReady |-> g.mappedReady,
      HeapFree    |-> g.heapFree,
      TotalAlloc  |-> g.totalAlloc,
      TotalFree   |-> g.totalFree ]

\* C8 (no caching): when no counter changed since the call began, each of
\* the seven fields GetMemLimitRelatedStats returned is the current value
\* of its counter, and HeapGoal the runtime's current goal.
C8_NoCache ==
    \A c \in Solo :
        (pc[c] \in StatsReturned /\ ~changed[c]) => stats[c] = Snapshot(gc)

\* A quiescent call returned a HeapLive other than the one the caller's
\* previous call returned.
C8_Witness ==
    \E c \in Solo :
        /\ pc[c] \in StatsReturned
        /\ ~changed[c]
        /\ last[c].HeapLive # -1
        /\ last[c].HeapLive # stats[c].HeapLive

\* How many of its own steps a call of IsMemLimitReached has taken when it
\* stands at p; a returned call has taken at most five.
OwnSteps(p) ==
    CASE p = "L110" -> 0
      [] p = "L111" -> 1
      [] p \in {"L113", "L118"} -> 2
      [] p \in {"L120", "L126"} -> 3
      [] p = "L127" -> 4
      [] p \in {"L131", "L135"} -> 5
      [] OTHER -> 0

\* C5 (no lock, no wait): whatever the other callers and the runtime are
\* doing, a call of IsMemLimitReached in progress can always take its next
\* step, every step it takes brings it one line closer to a return, and a
\* returned call holds a boolean.
C5_WaitFree ==
    /\ [](\A c \in Callers :
             /\ pc[c] \in IsMemRunning => ENABLED IsMemStep(c)
             /\ pc[c] \in IsMemReturned => ret[c] \in BOOLEAN)
    /\ [][\A c \in Callers :
             (pc[c] \in IsMemRunning /\ pc'[c] # pc[c])
                => /\ pc'[c] \in IsMemRunning \cup IsMemReturned
                   /\ OwnSteps(pc'[c]) > OwnSteps(pc[c])]_vars

\* One caller has returned while another is in the middle of its call.
C5_Witness ==
    \E c, d \in Callers :
        /\ c # d
        /\ pc[c] \in IsMemReturned
        /\ pc[d] \in {"L118", "L126", "L127"}

\* C7 (no memory of earlier calls): two returned calls of IsMemLimitReached
\* that read the same counter values hold the same result, whatever each
\* caller's previous call returned; and a call that finds MappedReady below
\* the soft limit after its caller's previous call reported pressure
\* returns false.
C7_NoMemory ==
    /\ \A c, d \in Callers :
          (pc[c] \in IsMemReturned /\ pc[d] \in IsMemReturned /\ loc[c] = loc[d])
             => ret[c] = ret[d]
    /\ \A c \in Callers :
          ( /\ pc[c] \in IsMemReturned
            /\ last[c].reached = "true"
            /\ loc[c].mappedReady < LimitRead(c) )
             => ret[c] = FALSE

\* Two callers read the same values and returned false, one after a call
\* that returned true and one after a call that returned false.
C7_Witness ==
    \E c, d \in Callers :
        /\ pc[c] \in IsMemReturned
        /\ pc[d] \in IsMemReturned
        /\ loc[c] = loc[d]
        /\ last[c].reached = "true"
        /\ last[d].reached = "false"
        /\ ret[c] = FALSE
        /\ ret[d] = FALSE

\* C9 (no torn reads): in every state, so also right after each read,
\* every counter value a call of either operation has read is a value
\* that counter held at an instant since the call began, whatever the
\* runtime did in between.
C9_NoTornRead ==
    \A c \in Solo :
        \A f \in watch \cap HasRead(pc[c]) :
            \E v \in held[c] : Reported(c, f, v[f]) = Seen(c)[f]

\* A call returned a value of the watched counter that is no longer the
\* counter's value: the counter took several values since the call began.
C9_Witness ==
    \E c \in Solo :
        /\ pc[c] \in IsMemReturned \cup StatsReturned
        /\ \E f \in watch \cap HasRead(pc[c]) :
              /\ Reported(c, f, View(gc)[f]) # Seen(c)[f]
              /\ Cardinality(held[c]) > 1

\* The watched fields of c's snapshot are a combination the counters had
\* at no single instant since the call began.
Skewed(c) ==
    \A v \in held[c] : \E f \in watch : Reported(c, f, v[f]) # Seen(c)[f]

\* C10 (inconsistent view): a snapshot combining values of different
\* instants is returned only when the runtime changed the watched counters
\* during the call; C10_Witness is such a snapshot.
C10_SkewByUpdate ==
    \A c \in Solo :
        (pc[c] \in StatsReturned /\ Skewed(c)) => Cardinality(held[c]) >= 2

\* A returned snapshot whose (HeapLive, MappedReady) pair was the
\* runtime's state at no instant of the call.
C10_Witness ==
    \E c \in Solo :
        /\ pc[c] \in StatsReturned
        /\ watch = {"heapLive", "mappedReady"}
        /\ Cardinality(held[c]) >= 3
        /\ Skewed(c)

\* C11 (heuristic under concurrent updates): a call of IsMemLimitReached
\* returns a result that the decision gave at no instant of the call only
\* when the runtime updated a counter during the call; both kinds of
\* mistake happen: C11_Witness is a false negative (false returned, the
\* decision true at every instant) of a caller whose previous call was a
\* false positive (true returned, the decision false at every instant).
C11_HeuristicByUpdate ==
    \A c \in Solo :
        (pc[c] \in IsMemReturned /\ ret[c] \notin held[c]) => changed[c]

C11_Witness ==
    \E c \in Solo :
        /\ pc[c] \in IsMemReturned
        /\ ret[c] = FALSE
        /\ held[c] = {TRUE}
        /\ last[c].reached = "false positive"

\* c has returned a snapshot and returned one before it.
Second(c) == pc[c] \in StatsReturned /\ last[c].prev # -1

\* C12 (monotonic counters): the TotalAlloc and TotalFree of a snapshot
\* are never smaller than those of the caller's previous snapshot, and
\* TotalAlloc is strictly larger when the runtime counted an allocation
\* between the return of the previous call and the current call.
C12_Monotonic ==
    \A c \in Solo :
        (Second(c) /\ watch \subseteq {"totalAlloc", "totalFree"}) =>
            /\ Cur(c) >= last[c].prev
            /\ <<"totalAlloc", "up">> \in last[c].idle => Cur(c) > last[c].prev

\* A second snapshot whose TotalAlloc is larger than the first one's after
\* an allocation between the two calls.
C12_Witness ==
    \E c \in Solo :
        /\ Second(c)
        /\ watch = {"totalAlloc"}
        /\ <<"totalAlloc", "up">> \in last[c].idle
        /\ Cur(c) > last[c].prev

C14_Healthy ==
    \A c \in Solo :
        (gc.memoryLimit > MaxRetained /\ pc[c] \in IsMemReturned)
            => (ret[c] = FALSE /\ pc[c] = "L113")

\* A healthy process with its whole working set mapped and its live heap
\* over the goal: a call that ran during updates returned false.
C14_Witness ==
    \E c \in Solo :
        /\ gc.memoryLimit > MaxRetained
        /\ pc[c] \in IsMemReturned
        /\ changed[c]
        /\ loc[c].mappedReady = MaxRetained
        /\ GoalExceeded
        /\ ret[c] = FALSE

\* C15 as claimed (scenario B, pressure): with a live heap retained above
\* the soft limit, a call of IsMemLimitReached during which, at every
\* instant, MappedReady exceeds the limit and HeapLive is at or over the
\* heap goal, returns true.
C15_Original ==
    \A c \in Solo :
        (pc[c] \in IsMemReturned /\ held[c] = {TRUE}) => ret[c] = TRUE

\* C15 as amended: a call during which the runtime updates no counter
\* returns true when MappedReady exceeds the soft limit, MappedReady less
\* HeapFree is not below the limit (the heap-free credit of line 119 does
\* not apply) and HeapLive is at or over the heap goal; so it does on
\* every such call for as long as the three conditions hold.
C15_Persistent ==
    \A c \in Solo :
        ( /\ pc[c] \in IsMemReturned
          /\ ~changed[c]
          /\ Thrashing(gc)
          /\ ~FreeCheck(gc.memoryLimit, gc.mappedReady, gc.heapFree) )
            => ret[c] = TRUE

\* A quiet call returned true under a budget of at least one byte, with
\* free bytes that do not bring MappedReady back under the limit.
C15_Witness ==
    \E c \in Solo :
        /\ pc[c] \in IsMemReturned
        /\ ~changed[c]
        /\ gc.memoryLimit >= 1
        /\ gc.heapFree > 0
        /\ Thrashing(gc)
        /\ ~FreeCheck(gc.memoryLimit, gc.mappedReady, gc.heapFree)
        /\ ret[c] = TRUE

\* C16: Goal Calculator agreement.  In a call during which the runtime
\* updates no counter, the goal IsMemLimitReached compares against (from
\* line 126 on) and the HeapGoal GetMemLimitRelatedStats reports (from line
\* 182 on) are the runtime's own goal for the counters as they stand: the
\* package adds no adjustment of its own.
C16_GoalAgreement ==
    \A c \in Callers :
        ~changed[c] =>
            /\ pc[c] \in {"L127", "L131", "L135"} =>
                   loc[c].heapGoal = runtimeHeapGoal(gc)
            /\ pc[c] \in (StatsRunning \ {"L182"}) \cup StatsReturned =>
                   stats[c].HeapGoal = runtimeHeapGoal(gc)

\* A quiet GetMemLimitRelatedStats call has returned a snapshot whose goal
\* the memory limit, not the GOGC percentage, decides.
C16_Witness ==
    \E c \in Callers :
        /\ pc[c] = "L191"
        /\ ~changed[c]
        /\ ToUint64(gc.memoryLimit) < gc.gcPercentHeapGoal
        /\ stats[c].HeapGoal = ToUint64(gc.memoryLimit)
        /\ stats[c].MemoryLimit = ToUint64(gc.memoryLimit)

\* C17 as stated: every snapshot GetMemLimitRelatedStats returns, also one
\* taken while the runtime allocates or collects, has MappedReady >=
\* HeapLive.
C17_Original ==
    \A c \in Callers :
        pc[c] = "L191" => stats[c].MappedReady >= stats[c].HeapLive

\* C17: every snapshot of a call during which the runtime takes no ready
\* bytes away (whatever else it updates, allocating or collecting) has
\* MappedReady >= HeapLive, from the load of MappedReady at line 187 on.
C17_ReadyCoversLive ==
    \A c \in Callers :
        (/\ pc[c] \in {"L188", "L189", "L190", "L191"}
         /\ <<"mappedReady", "down">> \notin held[c])
            => stats[c].MappedReady >= stats[c].HeapLive

\* A snapshot with a live heap has been returned by a call during which
\* the runtime mapped memory and allocated from it, and released nothing.
C17_Witness ==
    \E c \in Callers :
        /\ pc[c] = "L191"
        /\ {<<"mappedReady", "up">>, <<"heapLive", "up">>} \subseteq held[c]
        /\ <<"mappedReady", "down">> \notin held[c]
        /\ stats[c].HeapLive > 0
        /\ stats[c].MappedReady >= stats[c].HeapLive

\* The pair (mappedReady, heapFree) caller c's call holds once both are
\* read: the snapshot's fields, or the locals of IsMemLimitReached.
PairRead(c) ==
    pc[c] \in {"L189", "L190", "L191"} \cup {"L120", "L126", "L127", "L131", "L135"}

\* C18 as stated: every pair the package observes, in a snapshot or inside
\* IsMemLimitReached, has HeapFree <= MappedReady, under any interleaving
\* with the runtime's updates.
C18_Original ==
    \A c \in Callers :
        PairRead(c) => Seen(c).heapFree <= Seen(c).mappedReady

\* C18: every pair observed by a call during which the runtime adds no
\* free bytes (whatever else it updates) has HeapFree <= MappedReady, in
\* a snapshot and inside IsMemLimitReached.
C18_FreeWithinReady ==
    \A c \in Callers :
        (PairRead(c) /\ <<"heapFree", "up">> \notin held[c])
            => Seen(c).heapFree <= Seen(c).mappedReady

\* IsMemLimitReached has returned false on the heap-free credit, having
\* read as many free bytes as ready bytes, in a call during which the
\* runtime updated the counters without adding free bytes.
C18_Witness ==
    \E c \in Callers :
        /\ pc[c] = "L120"
        /\ held[c] # {}
        /\ <<"heapFree", "up">> \notin held[c]
        /\ loc[c].heapFree > 0
        /\ loc[c].heapFree = loc[c].mappedReady

C24_TierOrder ==
    \A c \in Callers :
        /\ pc[c] \in IsMemReturned =>
              /\ pc[c] = "L113" <=>
                     FastCheck(loc[c].memoryLimit, loc[c].mappedReady)
              /\ pc[c] = "L120" <=>
                     /\ ~FastCheck(loc[c].memoryLimit, loc[c].mappedReady)
                     /\ FreeCheck(loc[c].memoryLimit, loc[c].mappedReady,
                                  loc[c].heapFree)
        /\ pc[c] = "L113" =>
              loc[c].heapFree = 0 /\ loc[c].heapLive = 0 /\ loc[c].heapGoal = 0
        /\ pc[c] = "L120" => loc[c].heapLive = 0 /\ loc[c].heapGoal = 0
        /\ pc[c] \in {"L127", "L131", "L135"} =>
              /\ ~FastCheck(loc[c].memoryLimit, loc[c].mappedReady)
              /\ ~FreeCheck(loc[c].memoryLimit, loc[c].mappedReady,
                            loc[c].heapFree)
        /\ pc[c] \in {"L110", "L111", "L118", "L126"} => loc[c].heapGoal = 0

\* A call has returned at tier 1 while the free bytes, the live heap and
\* the runtime's goal were all non-zero, and holds none of them.
C24_Witness ==
    \E c \in Callers :
        /\ pc[c] = "L113"
        /\ gc.heapFree > 0 /\ gc.heapLive > 0 /\ runtimeHeapGoal(gc) > 0
        /\ loc[c].heapFree = 0 /\ loc[c].heapLive = 0 /\ loc[c].heapGoal = 0

\* C25: a zero soft limit is not special-cased.  A call of
\* IsMemLimitReached that read the limit 0 never returns at tier 1 or tier
\* 2: it returns from the goal check, true exactly when the heapLive it
\* read is at least the goal it computed.  A snapshot taken while the limit
\* stays 0 reports MemoryLimit 0.
C25_ZeroLimit ==
    \A c \in Callers :
        /\ (pc[c] \in IsMemReturned /\ loc[c].memoryLimit = 0) =>
              /\ pc[c] \in {"L131", "L135"}
              /\ ret[c] <=> loc[c].heapLive >= loc[c].heapGoal
        /\ (/\ pc[c] \in {"L186", "L187", "L188", "L189", "L190", "L191"}
            /\ ~changed[c]
            /\ gc.memoryLimit = 0) => stats[c].MemoryLimit = 0

\* With the limit 0 and nothing mapped, a call during which no counter
\* moved read more free bytes than ready bytes and returned true.
C25_Witness ==
    \E c \in Callers :
        /\ pc[c] = "L135"
        /\ ~changed[c]
        /\ gc.memoryLimit = 0
        /\ loc[c].memoryLimit = 0
        /\ loc[c].mappedReady < loc[c].heapFree
        /\ ret[c] = TRUE

\* C26: unsigned wrap-around in tier 2.  A call that has read both values
\* and read more free bytes than ready bytes has not returned at tier 2:
\* the difference wrapped to mappedReady - heapFree + 2^64, which no limit
\* that passed tier 1 exceeds, and its result is that of the goal check
\* alone.  In every other call tier 2 returns false exactly when the limit
\* exceeds the true difference, so the credit is lost in that case only.
C26_WrapAround ==
    \A c \in Callers :
        pc[c] \in {"L120", "L126", "L127", "L131", "L135"} =>
            IF loc[c].heapFree > loc[c].mappedReady
            THEN /\ pc[c] # "L120"
                 /\ Sub64(loc[c].mappedReady, loc[c].heapFree) =
                        loc[c].mappedReady - loc[c].heapFree + Mod
                 /\ Sub64(loc[c].mappedReady, loc[c].heapFree) >= LimitRead(c)
                 /\ pc[c] \in IsMemReturned =>
                        (ret[c] <=> loc[c].heapLive >= loc[c].heapGoal)
            ELSE pc[c] = "L120" <=>
                    LimitRead(c) > loc[c].mappedReady - loc[c].heapFree

\* A call read fewer ready bytes than free bytes with a limit that the true
\* difference would have stayed under, and returned from the goal check.
C26_Witness ==
    \E c \in Callers :
        /\ pc[c] \in {"L131", "L135"}
        /\ loc[c].heapFree > loc[c].mappedReady
        /\ loc[c].mappedReady > 0
        /\ LimitRead(c) > 0

\* A call of IsMemLimitReached by c has returned with no budget configured
\* (the limit is math.MaxInt64) or with a negative limit.
Unlimited(c) ==
    /\ pc[c] \in IsMemReturned
    /\ loc[c].memoryLimit = MaxInt64 \/ loc[c].memoryLimit < 0

\* C27 as stated: with no budget configured or a negative limit, a call
\* that read a MappedReady below 2^63 has returned false at tier 1.
C27_Original ==
    \A c \in Callers :
        (Unlimited(c) /\ loc[c].mappedReady < MaxInt64 + 1)
            => pc[c] = "L113" /\ ret[c] = FALSE

\* C27: the limit is compared as uint64.  With a negative limit a call
\* that read a MappedReady below 2^63, and with no budget configured a
\* call that read a MappedReady below 2^63 - 1, has returned false at tier
\* 1, whatever the live heap and the goal are.
C27_Converted ==
    \A c \in Callers :
        (/\ Unlimited(c)
         /\ \/ loc[c].memoryLimit < 0 /\ loc[c].mappedReady < MaxInt64 + 1
            \/ loc[c].mappedReady < MaxInt64)
            => pc[c] = "L113" /\ ret[c] = FALSE

\* With a negative limit a call read 2^63 - 1 ready bytes and returned
\* false at tier 1 while the live heap was at its goal.
C27_Witness ==
    \E c \in Callers :
        /\ pc[c] = "L113"
        /\ loc[c].memoryLimit < 0
        /\ loc[c].mappedReady = MaxInt64
        /\ ret[c] = FALSE
        /\ GoalExceeded

\* C28: the limit and the ready bytes are read once per call.  No step
\* after line 110 assigns the call's memoryLimit and none after line 111
\* its mappedReady; the step of line 118 decides the credit on those two
\* values, whatever the controller holds by then; the step of line 126
\* takes the goal from the controller as it stands at that step.
C28_ReadOnce ==
    [][\A c \in Callers :
          /\ pc[c] \in {"L111", "L118", "L126", "L127"} =>
                loc'[c].memoryLimit = loc[c].memoryLimit
          /\ pc[c] \in {"L118", "L126", "L127"} =>
                loc'[c].mappedReady = loc[c].mappedReady
          /\ (pc[c] = "L118" /\ pc'[c] # "L118") =>
                (pc'[c] = "L120" <=>
                    FreeCheck(loc[c].memoryLimit, loc[c].mappedReady,
                              loc'[c].heapFree))
          /\ (pc[c] = "L126" /\ pc'[c] # "L126") =>
                loc'[c].heapGoal = runtimeHeapGoal(gc)]_vars

\* A call past line 126 holds a limit and ready bytes that the runtime has
\* both changed since, and a goal that the limit it holds would not give.
C28_Witness ==
    \E c \in Callers :
        /\ pc[c] = "L127"
        /\ loc[c].memoryLimit # gc.memoryLimit
        /\ loc[c].mappedReady # gc.mappedReady
        /\ loc[c].heapGoal = runtimeHeapGoal(gc)
        /\ loc[c].heapGoal #
              runtimeHeapGoal([gc EXCEPT !.memoryLimit = loc[c].memoryLimit])
        /\ FreeCheck(gc.memoryLimit, gc.mappedReady, loc[c].heapFree)

\* The decision as the README derives it from a snapshot S: pressure when
\* none of the three comparisons lets the call off, the difference taken
\* on uint64 fields.
Derived(S) ==
    /\ S.MappedReady >= S.MemoryLimit
    /\ Sub64(S.MappedReady, S.HeapFree) >= S.MemoryLimit
    /\ S.HeapLive >= S.HeapGoal

\* C29: decision and snapshot agree on a quiescent state.  When one
\* goroutine holds a returned snapshot S and another a returned result r
\* of IsMemLimitReached, and no counter changed during either call, r is
\* true exactly when S.MappedReady >= S.MemoryLimit, S.MappedReady -
\* S.HeapFree >= S.MemoryLimit and S.HeapLive >= S.HeapGoal.
C29_Agree ==
    \A s \in Solo : \A d \in Callers \ Solo :
        (/\ pc[s] \in StatsReturned /\ ~changed[s]
         /\ pc[d] \in IsMemReturned /\ ~changed[d])
            => (ret[d] <=> Derived(stats[s]))

\* A quiet snapshot and a quiet decision of pressure are held together,
\* with a configured limit that the ready bytes have reached.
C29_Witness ==
    \E s \in Solo : \E d \in Callers \ Solo :
        /\ pc[s] \in StatsReturned /\ ~changed[s]
        /\ pc[d] \in IsMemReturned /\ ~changed[d]
        /\ ret[d] = TRUE
        /\ stats[s].MemoryLimit > 0
        /\ stats[s].MappedReady >= stats[s].MemoryLimit
        /\ stats[s].HeapGoal > 0

\* The sanity checks in the order the test makes them, each with the if
\* statements that make it up and what it requires of the two snapshots.
SanityChecks ==
    LET F == test.finalStats
        I == test.initialStats
        A == test.allocSizeMB
    IN << [name |-> "MemoryLimit", lines |-> <<"L222">>,
           ok |-> F.MemoryLimit # 0],
          [name |-> "HeapGoal", lines |-> <<"L233">>,
           ok |-> F.HeapGoal # 0],
          [name |-> "HeapLive increase", lines |-> <<"L243">>,
           ok |-> F.HeapLive > I.HeapLive],
          [name |-> "MappedReady", lines |-> <<"L257">>,
           ok |-> F.MappedReady # 0],
          [name |-> "TotalAlloc increase", lines |-> <<"L268">>,
           ok |-> F.TotalAlloc > I.TotalAlloc],
          [name |-> "HeapLive range", lines |-> <<"L283", "L293">>,
           ok |-> F.HeapLive >= ExpectedMin(A) /\ F.HeapLive <= ExpectedMax(A)],
          [name |-> "MappedReady range", lines |-> <<"L310", "L320">>,
           ok |-> /\ F.MappedReady >= F.HeapLive + MinOverheadMB
                  /\ F.MappedReady <= F.HeapLive + MaxOverheadMB],
          [name |-> "HeapGoal range", lines |-> <<"L337", "L347">>,
           ok |-> /\ F.HeapGoal >= F.HeapLive
                  /\ F.HeapGoal <= F.HeapLive + MaxGrowthMB],
          [name |-> "TotalAlloc range", lines |-> <<"L364", "L373">>,
           ok |-> F.TotalAlloc >= ExpectedMin(A) /\ F.TotalAlloc <= ExpectedMax(A)],
          [name |-> "TotalFree", lines |-> <<"L388">>,
           ok |-> F.TotalFree <= MaxTotalFreeMB] >>

\* The lines of the first k checks, in order.
RECURSIVE LinesUpTo(_)
LinesUpTo(k) ==
    IF k = 0 THEN <<>> ELSE LinesUpTo(k - 1) \o SanityChecks[k].lines

\* s is a beginning of t.
IsPrefix(s, t) == Len(s) <= Len(t) /\ SubSeq(t, 1, Len(s)) = s

\* C21: sanity test verdict.  The process ends with exit code 0 or 1; with
\* 0 exactly when every one of the ten checks holds of the snapshots; with
\* 1 at the first check, in the fixed order, that does not hold: every
\* earlier check was evaluated, that check was the last one evaluated and
\* no line of a later check ran.
C21_Verdict ==
    test.pc = "exited" =>
        /\ test.exit \in {0, 1}
        /\ test.exit = 0 <=> \A k \in DOMAIN SanityChecks : SanityChecks[k].ok
        /\ test.exit = 0 => test.checked = LinesUpTo(Len(SanityChecks))
        /\ test.exit = 1 =>
              \E k \in DOMAIN SanityChecks :
                  /\ ~SanityChecks[k].ok
                  /\ \A j \in 1 .. (k - 1) : SanityChecks[j].ok
                  /\ IsPrefix(LinesUpTo(k - 1), test.checked)
                  /\ IsPrefix(test.checked, LinesUpTo(k))
                  /\ Len(test.checked) > Len(LinesUpTo(k - 1))

\* The process has ended with code 1 at the upper end of the HeapGoal
\* range, with a snapshot that fails the later TotalFree check as well.
C21_Witness ==
    /\ test.pc = "exited"
    /\ test.exit = 1
    /\ test.checked[Len(test.checked)] = "L347"
    /\ test.finalStats.TotalFree > MaxTotalFreeMB

\* RunTest has returned its result.
Returned == run.pc = "returned"

\* e is among the recorded events.
Happened(e) == \E i \in DOMAIN run.events : run.events[i] = e

\* e is among the recorded events and, if f is too, comes before it.
Precedes(e, f) ==
    \E i \in DOMAIN run.events :
        /\ run.events[i] = e
        /\ \A j \in DOMAIN run.events : run.events[j] = f => i < j

\* C22 as stated: a returned result is passed, failed or timeout; passed
\* if and only if the container finished before the timeout with the
\* expected exit code, timeout if the timeout elapsed before the container
\* finished, failed in every other case.
C22_Original ==
    Returned =>
        LET inTime == Precedes("finish", "timeout")
            late == Precedes("timeout", "finish")
            pass == inTime /\ run.exited = run.ExpectedExitCode
        IN  /\ run.Status \in {"passed", "failed", "timeout"}
            /\ run.Status = "passed" <=> pass
            /\ late => run.Status = "timeout"
            /\ ~pass /\ ~late => run.Status = "failed"

\* C22: harness verdict per scenario.  A returned result is passed, failed
\* or timeout.  It is passed exactly when the select received the wait
\* result and the exit code in it is the expected one, and then the
\* container had ended with that code; it is timeout exactly when the
\* select took the Done case, and then the timeout had elapsed; it is
\* failed in every other case.  With the container ended in time and the
\* timeout not elapsed, or with the timeout elapsed and the container not
\* ended, and no wait error, the verdict is the one the claim states.
C22_Verdict ==
    Returned =>
        /\ run.Status \in {"passed", "failed", "timeout"}
        /\ run.Status = "passed" <=>
              run.taken = "waitCh" /\ run.ExitCode = run.ExpectedExitCode
        /\ run.Status = "timeout" <=> run.taken = "Done"
        /\ run.taken = "waitCh" =>
              run.ExitCode = run.exited /\ Happened("finish")
        /\ run.taken = "Done" => Happened("timeout")
        /\ run.taken = "none" =>
              run.Reason \in {"Container creation failed", "Container start failed"}
        /\ run.events = <<"finish">> /\ run.taken # "errCh" =>
              (run.Status = "passed" <=> run.exited = run.ExpectedExitCode)
        /\ run.events = <<"timeout">> /\ run.taken # "errCh" =>
              run.Status = "timeout"

\* The container ended with the expected code, then the timeout elapsed,
\* and the select took the Done case: the result is timeout.
C22_Witness ==
    /\ Returned
    /\ run.events = <<"finish", "timeout">>
    /\ run.exited = run.ExpectedExitCode
    /\ run.waitCh # <<>>
    /\ run.Status = "timeout"

\* C23: no persistent containers.  When RunTest has returned after a
\* successful container creation, by whatever path (start error, normal
\* exit, wait error, timeout), the forced ContainerRemove of that container
\* has been issued; it is issued by the deferred call, while RunTest is
\* returning and not earlier.
C23_Removed ==
    /\ Returned /\ run.containerID # "" =>
          ForcedRemove(run.containerID) \in run.calls
    /\ run.calls # {} =>
          /\ run.pc \in {"deferred", "returned"}
          /\ run.calls = {ForcedRemove(run.containerID)}

\* RunTest has returned on the start-error path, the earliest return after
\* the creation, and the removal has been issued.
C23_Witness ==
    /\ Returned
    /\ run.Reason = "Container start failed"
    /\ ForcedRemove(ContainerID) \in run.calls

\* The variable the goroutine of RunTest is about to read.
MainReads ==
    CASE run.pc = "L216" -> {"peakMemory"}
      [] run.pc = "L217" -> {"finalMemory"}
      [] run.pc = "L219" -> {"statsCollected"}
      [] OTHER -> {}

\* The variable the collector is about to write.
CollectorWrites ==
    CASE run.col.pc = "L170" -> {"statsCollected"}
      [] run.col.pc = "L172" -> {"peakMemory"}
      [] run.col.pc = "L174" -> {"finalMemory"}
      [] OTHER -> {}

\* A read of RunTest and a write of the collector, of the same variable,
\* are both about to happen: nothing orders one before the other.
Race == MainReads \cap CollectorWrites # {}

\* C30: the collector writes peakMemory, finalMemory and statsCollected
\* while the main flow reads them after the wait completes, with nothing
\* ordering the writes before the reads.  A read overlaps a write of the
\* same variable only in the waitCh case of the select, before RunTest
\* returns, and only while the collector is still within its ten attempts;
\* such a state is reachable (C30_Witness).
C30_Unordered ==
    Race =>
        /\ run.taken = "waitCh"
        /\ run.col.i < MaxAttempts
        /\ ~run.statsCancelled

\* RunTest is about to read peakMemory for the result while the collector,
\* past its first attempt, is about to write it.
C30_Witness ==
    /\ Race
    /\ run.pc = "L216"
    /\ run.col.pc = "L172"
    /\ run.col.i > 0

====
